---- MODULE Spec2Model ----
(***************************************************************************)
(* A model of the mlisp interpreter.  The repository holds two generations *)
(* of the interpreter:                                                     *)
(*   - src/main.cpp       : the single-file generation (lexer, parser,     *)
(*                          evaluator, builtins and REPL in one file);     *)
(*   - src/src/*.cpp      : the multi-file generation (env.cpp, eval.cpp,  *)
(*                          object.cpp, parser.cpp, lexer.cpp, main.cpp).  *)
(* Definitions that model src/main.cpp carry the source's names.           *)
(* Definitions that model src/src/*.cpp carry the source's names with the  *)
(* suffix _src, because the two generations define the same names.         *)
(*                                                                         *)
(* Objects are records with a "kind" field (ObjectKind).  A list pointer   *)
(* (std::shared_ptr<List>, possibly null) is a sequence of objects; the    *)
(* null pointer is the empty sequence.  The cells a PartiallyApplied-      *)
(* Function holds are shared and mutated by List::append, so they live in  *)
(* `store` and the object holds an index into it (0 for the null pointer). *)
(* Call sites that create partial applications are top-level forms of a    *)
(* REPL line, whose cells are freshly parsed for every line.               *)
(***************************************************************************)
EXTENDS Integers, Sequences, FiniteSets, TLC

VARIABLES
    env,      \* the root Env owned by main(): a chain of symtables, innermost first
    store,    \* the argument cells held by PartiallyAppliedFunction objects
    pc,       \* where the process is: "prompt", "exited", "crashed", "hung"
    input,    \* the line (its parsed top-level forms) read by the last prompt
    out       \* what the last line produced: one outcome per evaluated form

vars == <<env, store, pc, input, out>>

----------------------------------------------------------------------------
(* Bounds of the model *)

MaxPartials == 2
MaxPending == 3
MaxInt == 3
MaxText == 5
MaxLexText == 4

----------------------------------------------------------------------------
(* Objects *)

GLOBAL_T == [kind |-> "T"]

GLOBAL_NIL == [kind |-> "NIL"]

Integer(i) == [kind |-> "Integer", v |-> i]

Number(n, d) == [kind |-> "Number", num |-> n, den |-> d]

String(s) == [kind |-> "String", str |-> s]

Symbol(s) == [kind |-> "Symbol", name |-> s]

List(es) == [kind |-> "List", elems |-> es]

Function(ps, b) == [kind |-> "Function", params |-> ps, body |-> b]

Macro(ps, b) == [kind |-> "Macro", params |-> ps, body |-> b]

FuncPtr(n) == [kind |-> "FuncPtr", name |-> n]

PartiallyAppliedFunction(f, a) == [kind |-> "PartiallyAppliedFunction", func |-> f, args |-> a]

PartiallyAppliedFuncPtr(f, a) == [kind |-> "PartiallyAppliedFuncPtr", func |-> f, args |-> a]

Quoted(o) == [kind |-> "Quoted", object |-> o]

BackQuoted(o) == [kind |-> "BackQuoted", object |-> o]

Comma(o) == [kind |-> "Comma", object |-> o]

CommaAtmark(o) == [kind |-> "CommaAtmark", object |-> o]

----------------------------------------------------------------------------
(* Outcomes of an evaluation.  st is "ok" (a value was returned), "throw"  *)
(* (a C++ exception propagates; val names its kind), "exit" (exit(1) was   *)
(* called), "ub" (the code ran into undefined behaviour) or "hang" (a loop *)
(* that never ends).  env and store are the caller's Env and the cells as  *)
(* the evaluation left them.                                               *)

Error(k) == [kind |-> "Error", err |-> k]

Ok(v, e, s) == [st |-> "ok", val |-> v, env |-> e, store |-> s]

Throw(k, e, s) == [st |-> "throw", val |-> Error(k), env |-> e, store |-> s]

Stop(how, e, s) == [st |-> how, val |-> Error(how), env |-> e, store |-> s]

----------------------------------------------------------------------------
(* Env *)

\* Env::set_obj: symtable[sym] = obj, in the frame itself
set_obj(e, sym, obj) == <<(sym :> obj) @@ Head(e)>> \o Tail(e)

RECURSIVE get_obj(_, _)
\* Env::get_obj of src/main.cpp: the frame's own symtable, else the outer Env
get_obj(e, sym) ==
    IF sym \in DOMAIN Head(e) THEN [st |-> "ok", val |-> Head(e)[sym]]
    ELSE IF Tail(e) # <<>> THEN get_obj(Tail(e), sym)
    ELSE [st |-> "throw", val |-> Error("UnboundSymbol")]

\* Env::get_obj of src/src/env.cpp: no walk; NIL when there is no outer Env
get_obj_src(e, sym) ==
    IF sym \in DOMAIN Head(e) THEN [st |-> "ok", val |-> Head(e)[sym]]
    ELSE IF Tail(e) = <<>> THEN [st |-> "ok", val |-> GLOBAL_NIL]
    ELSE [st |-> "throw", val |-> Error("UnboundSymbol")]

----------------------------------------------------------------------------
(* Numbers.  An Integer is a C++ int; the bounds keep every value far from *)
(* the 32-bit range.  A Number is a double, held as the fraction num/den   *)
(* in lowest terms with den > 0; den = 0 holds what IEEE-754 division by   *)
(* zero gives (num 1: inf, num -1: -inf, num 0: NaN).                      *)

Abs(x) == IF x < 0 THEN -x ELSE x

Sign(x) == IF x < 0 THEN -1 ELSE IF x = 0 THEN 0 ELSE 1

RECURSIVE Gcd(_, _)
Gcd(a, b) == IF b = 0 THEN a ELSE Gcd(b, a % b)

\* the double with value n/d
Double(n, d) ==
    IF d = 0 THEN Number(Sign(n), 0)
    ELSE LET g == Gcd(Abs(n), Abs(d))
         IN  Number(Sign(d) * (n \div g), Abs(d) \div g)

\* double l = integer: the implicit conversion int -> double
Widen(o) == IF o.kind = "Integer" THEN Number(o.v, 1) ELSE o

\* C++ int / int truncates toward zero
TruncDiv(l, r) == Sign(l) * Sign(r) * (Abs(l) \div Abs(r))

\* l op r on two ints
IntOp(op, l, r) ==
    CASE op = "+" -> l + r
      [] op = "-" -> l - r
      [] op = "*" -> l * r
      [] op = "/" -> TruncDiv(l, r)

\* l op r on two doubles
DoubleOp(op, l, r) ==
    IF l.den = 0 \/ r.den = 0 THEN Number(0, 0)
    ELSE CASE op = "+" -> Double(l.num * r.den + r.num * l.den, l.den * r.den)
           [] op = "-" -> Double(l.num * r.den - r.num * l.den, l.den * r.den)
           [] op = "*" -> Double(l.num * r.num, l.den * r.den)
           [] op = "/" -> Double(l.num * r.den, l.den * r.num)

\* APPLY_ARITH_OP_TO_NUMS(a1, a2, a3, op): a3 = a1 op a2
APPLY_ARITH_OP_TO_NUMS(a1, a2, op) ==
    IF a1.kind = "Integer" /\ a2.kind = "Integer"
    THEN IF op = "/" /\ a2.v = 0
         THEN [st |-> "ub", val |-> Error("ub")]
         ELSE [st |-> "ok", val |-> Integer(IntOp(op, a1.v, a2.v))]
    ELSE IF a1.kind \in {"Integer", "Number"} /\ a2.kind \in {"Integer", "Number"}
    THEN [st |-> "ok", val |-> DoubleOp(op, Widen(a1), Widen(a2))]
    ELSE [st |-> "throw", val |-> Error("TypeError")]

\* l op r on two ints, for the comparison operators
IntComp(op, l, r) ==
    CASE op = "=" -> l = r
      [] op = "/=" -> l # r
      [] op = "<" -> l < r
      [] op = ">" -> l > r
      [] op = "<=" -> l <= r
      [] op = ">=" -> l >= r

\* l < r on two doubles that are no NaN
DoubleLess(l, r) ==
    IF l.den = 0 \/ r.den = 0
    THEN (IF l.den = 0 THEN l.num ELSE 0) < (IF r.den = 0 THEN r.num ELSE 0)
    ELSE l.num * r.den < r.num * l.den

\* l op r on two doubles, for the comparison operators; a NaN compares unequal
\* to everything and is in no order with anything
DoubleComp(op, l, r) ==
    IF (l.den = 0 /\ l.num = 0) \/ (r.den = 0 /\ r.num = 0) THEN op = "/="
    ELSE CASE op = "=" -> l = r
           [] op = "/=" -> l # r
           [] op = "<" -> DoubleLess(l, r)
           [] op = ">" -> DoubleLess(r, l)
           [] op = "<=" -> ~DoubleLess(r, l)
           [] op = ">=" -> ~DoubleLess(l, r)

\* does a1 op a2 hold?  (the if chain both APPLY_COMP_OP_TO_NUMS macros share)
CompHolds(a1, a2, op) ==
    IF a1.kind = "Integer" /\ a2.kind = "Integer" THEN IntComp(op, a1.v, a2.v)
    ELSE DoubleComp(op, Widen(a1), Widen(a2))

\* APPLY_COMP_OP_TO_NUMS(a1, a2, op) of src/main.cpp: return GLOBAL_T or GLOBAL_NIL
APPLY_COMP_OP_TO_NUMS(a1, a2, op) ==
    IF a1.kind \in {"Integer", "Number"} /\ a2.kind \in {"Integer", "Number"}
    THEN [st |-> "ok", val |-> IF CompHolds(a1, a2, op) THEN GLOBAL_T ELSE GLOBAL_NIL]
    ELSE [st |-> "throw", val |-> Error("TypeError")]

\* the ASCII code of a character of the strings compared
CharCode(c) == CASE c = "A" -> 65 [] c = "B" -> 66 [] c = "a" -> 97 [] c = "b" -> 98

\* tolower
tolower(c) == CASE c = "A" -> "a" [] c = "B" -> "b" [] OTHER -> c

RECURSIVE StrLess(_, _)
\* l < r of std::string: the order of the dictionary
StrLess(l, r) ==
    IF r = <<>> THEN FALSE
    ELSE IF l = <<>> THEN TRUE
    ELSE IF CharCode(Head(l)) # CharCode(Head(r)) THEN CharCode(Head(l)) < CharCode(Head(r))
    ELSE StrLess(Tail(l), Tail(r))

\* l op r of std::string
StrComp(op, l, r) ==
    CASE op = "=" -> l = r
      [] op = "/=" -> l # r
      [] op = "<" -> StrLess(l, r)
      [] op = ">" -> StrLess(r, l)
      [] op = "<=" -> ~StrLess(r, l)
      [] op = ">=" -> ~StrLess(l, r)

\* APPLY_COMP_OP_TO_STRS(name, a1, a2, op, ignore_upper_lower) of src/main.cpp
APPLY_COMP_OP_TO_STRS(a1, a2, op, ignore_upper_lower) ==
    IF a1.kind = "String" /\ a2.kind = "String"
    THEN LET l == IF ignore_upper_lower
                  THEN [i \in 1..Len(a1.str) |-> tolower(a1.str[i])] ELSE a1.str
             r == IF ignore_upper_lower
                  THEN [i \in 1..Len(a2.str) |-> tolower(a2.str[i])] ELSE a2.str
         IN  [st |-> "ok", val |-> IF StrComp(op, l, r) THEN GLOBAL_T ELSE GLOBAL_NIL]
    ELSE [st |-> "throw", val |-> Error("TypeError")]

\* APPLY_COMP_OP_TO_NUMS(a1, a2, op) of src/src/eval.cpp: t and nil are both a
\* std::make_shared<TObject>()
APPLY_COMP_OP_TO_NUMS_src(a1, a2, op) ==
    IF a1.kind \in {"Integer", "Number"} /\ a2.kind \in {"Integer", "Number"}
    THEN LET t == [kind |-> "T"]
             nil == [kind |-> "T"]
         IN  [st |-> "ok", val |-> IF CompHolds(a1, a2, op) THEN t ELSE nil]
    ELSE [st |-> "throw", val |-> Error("TypeError")]

----------------------------------------------------------------------------
(* The evaluator of src/main.cpp.  Every operator takes the caller's Env e *)
(* and the cells s and returns an outcome holding both as it left them.    *)

RECURSIVE eval(_, _, _)
RECURSIVE eval_list(_, _, _)
RECURSIVE apply_func_ptr(_, _, _, _)
RECURSIVE apply_part_func_ptr(_, _, _, _)
RECURSIVE apply_part_func(_, _, _, _)
RECURSIVE apply_func(_, _, _, _, _)
RECURSIVE apply_macro(_, _, _, _)
RECURSIVE expand_macro(_, _, _, _)
RECURSIVE eval_each(_, _, _, _, _)
RECURSIVE bind_raw(_, _, _, _)
RECURSIVE bind_params(_, _, _, _, _, _)
RECURSIVE eval_body(_, _, _, _, _)
RECURSIVE eval_expanded(_, _, _, _, _)
RECURSIVE arith_rest(_, _, _, _, _, _)

\* a local variable: auto r = v; and then the code F that uses r
Let(v, F(_)) == F(v)

\* the outcome r with the callee's temp_env handed on to the caller
Back_leak(r, e) == r

\* the outcome r, seen from a caller whose Env is e (a callee's temp_env is dropped)
Back(r, e) == [r EXCEPT !.env = e]

\* eval_symbol: env.get_obj(symbol->get_symbol())
eval_symbol(symbol, e, s) ==
    LET g == get_obj(e, symbol.name)
    IN  IF g.st = "ok" THEN Ok(g.val, e, s) ELSE Throw("UnboundSymbol", e, s)

\* eval: self-evaluating kinds, lists, symbols; exit(1) on every other kind
eval(object, e, s) ==
    CASE object.kind \in {"T", "NIL", "Integer", "Number", "String"} -> Ok(object, e, s)
      [] object.kind = "List" -> eval_list(object.elems, e, s)
      [] object.kind = "Symbol" -> eval_symbol(object, e, s)
      [] OTHER -> Stop("exit", e, s)

\* eval_list: the head is looked up when it is a symbol, evaluated otherwise
eval_list(list, e, s) ==
    LET head == Head(list)
        next == Tail(list)
    IN  IF head.kind = "Symbol"
        THEN LET g == get_obj(e, head.name)
             IN  IF g.st # "ok" THEN Throw("UnboundSymbol", e, s)
                 ELSE CASE g.val.kind = "FuncPtr" -> apply_func_ptr(g.val, next, e, s)
                        [] g.val.kind = "Function" -> apply_func(g.val, next, 0, e, s)
                        [] g.val.kind = "PartiallyAppliedFuncPtr" ->
                               apply_part_func_ptr(g.val, next, e, s)
                        [] g.val.kind = "PartiallyAppliedFunction" ->
                               apply_part_func(g.val, next, e, s)
                        [] g.val.kind = "Macro" -> apply_macro(g.val, next, e, s)
                        [] OTHER -> Throw("NotCallable", e, s)
        ELSE Let(eval(head, e, s), LAMBDA r :
                 IF r.st # "ok" THEN r
                 ELSE CASE r.val.kind = "Function" ->
                               apply_func(r.val, next, 0, r.env, r.store)
                        [] r.val.kind = "PartiallyAppliedFunction" ->
                               apply_part_func(r.val, next, r.env, r.store)
                        [] r.val.kind = "PartiallyAppliedFuncPtr" ->
                               apply_part_func_ptr(r.val, next, r.env, r.store)
                        [] r.val.kind = "Macro" -> apply_macro(r.val, next, r.env, r.store)
                        [] OTHER -> Throw("NotCallable", r.env, r.store))

\* evaluate objs[i..] in order in e, each seeing what the ones before it did;
\* val is the sequence of the values (the a1 = eval(a1, env); a2 = eval(a2, env)
\* of the EVAL_ macros and the body loop of expand_macro)
eval_each(objs, i, vals, e, s) ==
    IF i > Len(objs) THEN Ok(vals, e, s)
    ELSE Let(eval(objs[i], e, s), LAMBDA r :
             IF r.st # "ok" THEN r
             ELSE eval_each(objs, i + 1, Append(vals, r.val), r.env, r.store))

\* the loop of expand_macro that binds: temp_env.set_obj(sym, *args), not evaluated
bind_raw(syms, args, i, temp_env) ==
    IF i > Len(syms) THEN temp_env
    ELSE bind_raw(syms, args, i + 1, set_obj(temp_env, syms[i], args[i]))

\* expand_macro: bind the raw arguments in a copy of env, evaluate every body
\* expression there; val is the list of all the values
expand_macro(macro, args, e, s) ==
    IF Len(args) # Len(macro.params) THEN Throw("ArityMismatch", e, s)
    ELSE Back(eval_each(macro.body, 1, <<>>, bind_raw(macro.params, args, 1, e), s), e)

\* the loop of apply_macro: result = eval(expanded_obj, env) for each one
eval_expanded(objs, i, result, e, s) ==
    IF i > Len(objs) THEN Ok(result, e, s)
    ELSE Let(eval(objs[i], e, s), LAMBDA r :
             IF r.st # "ok" THEN r ELSE eval_expanded(objs, i + 1, r.val, r.env, r.store))

\* apply_macro: expand, then evaluate the expanded objects in env
apply_macro(macro, args, e, s) ==
    Let(expand_macro(macro, args, e, s), LAMBDA x :
        IF x.st # "ok" THEN x ELSE eval_expanded(x.val, 1, GLOBAL_NIL, x.env, x.store))

\* apply_part_func_ptr: append the new cells to the held ones, call the builtin
apply_part_func_ptr(func, args, e, s) ==
    IF func.args = 0 THEN Stop("ub", e, s)
    ELSE LET s2 == [s EXCEPT ![func.args] = @ \o args]
         IN  apply_func_ptr(func.func, s2[func.args], e, s2)

\* apply_part_func: new_args = func->get_args(); new_args->append(args)
apply_part_func(func, args, e, s) ==
    IF func.args = 0 THEN Stop("ub", e, s)
    ELSE LET s2 == [s EXCEPT ![func.args] = @ \o args]
         IN  apply_func(func.func, s2[func.args], func.args, e, s2)

\* the loop of apply_func with no parameter bound
bind_params_none(syms, args, i, temp_env, e, s) ==
    [st |-> "ok", val |-> GLOBAL_NIL, temp |-> temp_env, env |-> e, store |-> s]

\* the loop of apply_func that binds: temp_env.set_obj(sym, eval(*args, env))
bind_params(syms, args, i, temp_env, e, s) ==
    IF i > Len(syms) THEN [st |-> "ok", val |-> GLOBAL_NIL, temp |-> temp_env,
                           env |-> e, store |-> s]
    ELSE Let(eval(args[i], e, s), LAMBDA r :
             IF r.st # "ok"
             THEN [st |-> r.st, val |-> r.val, temp |-> temp_env,
                   env |-> r.env, store |-> r.store]
             ELSE bind_params(syms, args, i + 1, set_obj(temp_env, syms[i], r.val),
                              r.env, r.store))

\* the loop of apply_func that runs the body: result = eval(body, temp_env)
eval_body(body, i, result, temp_env, s) ==
    IF i > Len(body) THEN Ok(result, temp_env, s)
    ELSE Let(eval(body[i], temp_env, s), LAMBDA r :
             IF r.st # "ok" THEN r ELSE eval_body(body, i + 1, r.val, r.env, r.store))

\* apply_func: args are the cells handed in, held = their index in store when
\* they are the cells of a PartiallyAppliedFunction (0 when they are a call site's)
apply_func(func, args, held, e, s) ==
    IF Len(args) > Len(func.params) THEN Throw("ArityExcess", e, s)
    ELSE IF Len(args) = Len(func.params)
    THEN Let(bind_params(func.params, args, 1, e, e, s), LAMBDA b :
             IF b.st # "ok" THEN [st |-> b.st, val |-> b.val, env |-> b.env, store |-> b.store]
             ELSE Back(eval_body(func.body, 1, GLOBAL_NIL, b.temp, b.store), b.env))
    ELSE IF args = <<>> THEN Ok(PartiallyAppliedFunction(func, 0), e, s)
    ELSE IF held # 0 THEN Ok(PartiallyAppliedFunction(func, held), e, s)
    ELSE Ok(PartiallyAppliedFunction(func, Len(s) + 1), e, Append(s, args))

----------------------------------------------------------------------------
(* The builtins of src/main.cpp *)

\* TAKE_JUST_ONE_ARG .. TAKE_JUST_THREE_ARG: exactly n arguments, not evaluated
TAKE_JUST_ARG(n, args, e, s) ==
    IF Len(args) # n THEN Throw("ArityMismatch", e, s) ELSE Ok(args, e, s)

\* EVAL_JUST_ONE_ARG .. EVAL_JUST_THREE_ARG: take exactly n, then evaluate them in order
EVAL_JUST_ARG(n, args, e, s) ==
    IF Len(args) # n THEN Throw("ArityMismatch", e, s) ELSE eval_each(args, 1, <<>>, e, s)

\* TAKE_ONE_ARG .. TAKE_THREE_ARG: the first n arguments, at least n must be there
TAKE_ARG(n, args, e, s) ==
    IF Len(args) < n THEN Throw("ArityShort", e, s) ELSE Ok(SubSeq(args, 1, n), e, s)

\* EVAL_ONE_ARG .. EVAL_THREE_ARG: take the first n, then evaluate them in order
EVAL_ARG(n, args, e, s) ==
    IF Len(args) < n THEN Throw("ArityShort", e, s)
    ELSE eval_each(SubSeq(args, 1, n), 1, <<>>, e, s)

\* fn_quote
fn_quote(args, e, s) ==
    LET a == TAKE_JUST_ARG(1, args, e, s)
    IN  IF a.st # "ok" THEN a ELSE Ok(a.val[1], e, s)

\* fn_list: EVAL_ONE_ARG, then the rest of the arguments, each evaluated and appended
fn_list(args, e, s) ==
    Let(EVAL_ARG(1, args, e, s), LAMBDA a :
        IF a.st # "ok" THEN a
        ELSE Let(eval_each(args, 2, a.val, a.env, a.store), LAMBDA r :
                 IF r.st # "ok" THEN r ELSE Ok(List(r.val), r.env, r.store)))

\* fn_car: the value of the first cell of a list; NIL for NIL
fn_car(args, e, s) ==
    Let(EVAL_JUST_ARG(1, args, e, s), LAMBDA a :
        IF a.st # "ok" THEN a
        ELSE IF a.val[1].kind = "List" THEN Ok(Head(a.val[1].elems), a.env, a.store)
        ELSE IF a.val[1].kind = "NIL" THEN Ok(a.val[1], a.env, a.store)
        ELSE Throw("TypeError", a.env, a.store))

\* fn_cdr without the step to the next cell
fn_cdr_whole(args, e, s) ==
    Let(EVAL_JUST_ARG(1, args, e, s), LAMBDA a :
        IF a.st # "ok" THEN a
        ELSE IF a.val[1].kind \in {"List", "NIL"} THEN Ok(a.val[1], a.env, a.store)
        ELSE Throw("TypeError", a.env, a.store))

\* fn_cdr: the cells after the first; GLOBAL_NIL when there is none; NIL for NIL
fn_cdr(args, e, s) ==
    Let(EVAL_JUST_ARG(1, args, e, s), LAMBDA a :
        IF a.st # "ok" THEN a
        ELSE IF a.val[1].kind = "List"
        THEN IF Tail(a.val[1].elems) = <<>> THEN Ok(GLOBAL_NIL, a.env, a.store)
             ELSE Ok(List(Tail(a.val[1].elems)), a.env, a.store)
        ELSE IF a.val[1].kind = "NIL" THEN Ok(a.val[1], a.env, a.store)
        ELSE Throw("TypeError", a.env, a.store))

\* fn_cons: a new cell in front of a List; otherwise the list of a1 and a2
fn_cons(args, e, s) ==
    Let(EVAL_JUST_ARG(2, args, e, s), LAMBDA a :
        IF a.st # "ok" THEN a
        ELSE IF a.val[2].kind = "List"
        THEN Ok(List(<<a.val[1]>> \o a.val[2].elems), a.env, a.store)
        ELSE Ok(List(<<a.val[1]>> \o <<a.val[2]>>), a.env, a.store))

\* fn_if
fn_if(args, e, s) ==
    LET a == TAKE_JUST_ARG(3, args, e, s)
    IN  IF a.st # "ok" THEN a
        ELSE Let(eval(args[1], e, s), LAMBDA c :
                 IF c.st # "ok" THEN c
                 ELSE eval(args[IF c.val.kind # "NIL" THEN 2 ELSE 3], c.env, c.store))

\* the while loop of fn_add_num .. fn_div_num: acc = a op acc for each further argument
arith_rest(op, args, i, acc, e, s) ==
    IF i > Len(args) THEN Ok(acc, e, s)
    ELSE Let(eval(args[i], e, s), LAMBDA r :
             IF r.st # "ok" THEN r
             ELSE LET x == APPLY_ARITH_OP_TO_NUMS(r.val, acc, op)
                  IN  IF x.st = "ok" THEN arith_rest(op, args, i + 1, x.val, r.env, r.store)
                      ELSE [st |-> x.st, val |-> x.val, env |-> r.env, store |-> r.store])

\* the body shared by fn_add_num, fn_sub_num, fn_mul_num and fn_div_num
fn_arith_num(op, args, e, s) ==
    Let(EVAL_ARG(2, args, e, s), LAMBDA a :
        IF a.st # "ok" THEN a
        ELSE LET x == APPLY_ARITH_OP_TO_NUMS(a.val[1], a.val[2], op)
             IN  IF x.st = "ok" THEN arith_rest(op, args, 3, x.val, a.env, a.store)
                 ELSE [st |-> x.st, val |-> x.val, env |-> a.env, store |-> a.store])

fn_add_num(args, e, s) == fn_arith_num("+", args, e, s)

fn_sub_num(args, e, s) == fn_arith_num("-", args, e, s)

fn_mul_num(args, e, s) == fn_arith_num("*", args, e, s)

fn_div_num(args, e, s) == fn_arith_num("/", args, e, s)

\* the body shared by fn_eq_num, fn_ne_num, fn_lt_num, fn_gt_num, fn_le_num, fn_ge_num
fn_comp_num(op, args, e, s) ==
    Let(EVAL_JUST_ARG(2, args, e, s), LAMBDA a :
        IF a.st # "ok" THEN a
        ELSE LET x == APPLY_COMP_OP_TO_NUMS(a.val[1], a.val[2], op)
             IN  [st |-> x.st, val |-> x.val, env |-> a.env, store |-> a.store])

\* fn_equal_str: APPLY_COMP_OP_TO_STRS("string>=", a1, a2, >=, true)
fn_equal_str(args, e, s) ==
    Let(EVAL_JUST_ARG(2, args, e, s), LAMBDA a :
        IF a.st # "ok" THEN a
        ELSE LET x == APPLY_COMP_OP_TO_STRS(a.val[1], a.val[2], ">=", TRUE)
             IN  [st |-> x.st, val |-> x.val, env |-> a.env, store |-> a.store])

fn_eq_num(args, e, s) == fn_comp_num("=", args, e, s)

fn_ne_num(args, e, s) == fn_comp_num("/=", args, e, s)

fn_lt_num(args, e, s) == fn_comp_num("<", args, e, s)

fn_gt_num(args, e, s) == fn_comp_num(">", args, e, s)

fn_le_num(args, e, s) == fn_comp_num("<=", args, e, s)

fn_ge_num(args, e, s) == fn_comp_num(">=", args, e, s)

\* the part fn_lambda and fn_macro share: the parameter list and the body
fn_callable(kind, args, e, s) ==
    LET a == TAKE_ARG(1, args, e, s)
    IN  IF a.st # "ok" THEN a
        ELSE IF args[1].kind = "List"
        THEN IF \E i \in 1..Len(args[1].elems) : args[1].elems[i].kind # "Symbol"
             THEN Throw("TypeError", e, s)
             ELSE Ok([kind |-> kind,
                      params |-> [i \in 1..Len(args[1].elems) |-> args[1].elems[i].name],
                      body |-> Tail(args)], e, s)
        ELSE IF args[1].kind = "NIL"
        THEN Ok([kind |-> kind, params |-> <<>>, body |-> Tail(args)], e, s)
        ELSE Throw("TypeError", e, s)

fn_lambda(args, e, s) == fn_callable("Function", args, e, s)

fn_macro(args, e, s) == fn_callable("Macro", args, e, s)

\* fn_set without its env.set_obj(name, a2)
fn_set_unbound(args, e, s) ==
    Let(EVAL_JUST_ARG(2, args, e, s), LAMBDA a :
        IF a.st # "ok" THEN a
        ELSE IF a.val[1].kind # "Symbol" THEN Throw("TypeError", a.env, a.store)
        ELSE Ok(a.val[2], a.env, a.store))

\* fn_set: both arguments evaluated; the first must evaluate to a symbol
fn_set(args, e, s) ==
    Let(EVAL_JUST_ARG(2, args, e, s), LAMBDA a :
        IF a.st # "ok" THEN a
        ELSE IF a.val[1].kind # "Symbol" THEN Throw("TypeError", a.env, a.store)
        ELSE Ok(a.val[2], set_obj(a.env, a.val[1].name, a.val[2]), a.store))

\* fn_setq: env.set_obj(name, eval(a2, env)); return a2
fn_setq(args, e, s) ==
    LET a == TAKE_JUST_ARG(2, args, e, s)
    IN  IF a.st # "ok" THEN a
        ELSE IF args[1].kind # "Symbol" THEN Throw("TypeError", e, s)
        ELSE Let(eval(args[2], e, s), LAMBDA r :
                 IF r.st # "ok" THEN r
                 ELSE Ok(args[2], set_obj(r.env, args[1].name, r.val), r.store))

\* the part fn_defun and fn_defmacro share
fn_define(kind, args, e, s) ==
    LET a == TAKE_ARG(1, args, e, s)
    IN  IF a.st # "ok" THEN a
        ELSE IF args[1].kind # "Symbol" THEN Throw("TypeError", e, s)
        ELSE LET r == fn_callable(kind, Tail(args), e, s)
             IN  IF r.st # "ok" THEN r
                 ELSE Ok(r.val, set_obj(r.env, args[1].name, r.val), r.store)

fn_defun(args, e, s) == fn_define("Function", args, e, s)

fn_defmacro(args, e, s) == fn_define("Macro", args, e, s)

\* apply_func_ptr: func->get_func()(args, env)
apply_func_ptr(func, args, e, s) ==
    CASE func.name = "quote" -> fn_quote(args, e, s)
      [] func.name = "list" -> fn_list(args, e, s)
      [] func.name = "car" -> fn_car(args, e, s)
      [] func.name = "cdr" -> fn_cdr(args, e, s)
      [] func.name = "cons" -> fn_cons(args, e, s)
      [] func.name = "if" -> fn_if(args, e, s)
      [] func.name = "+" -> fn_add_num(args, e, s)
      [] func.name = "-" -> fn_sub_num(args, e, s)
      [] func.name = "*" -> fn_mul_num(args, e, s)
      [] func.name = "/" -> fn_div_num(args, e, s)
      [] func.name = "=" -> fn_eq_num(args, e, s)
      [] func.name = "/=" -> fn_ne_num(args, e, s)
      [] func.name = "<" -> fn_lt_num(args, e, s)
      [] func.name = ">" -> fn_gt_num(args, e, s)
      [] func.name = "<=" -> fn_le_num(args, e, s)
      [] func.name = ">=" -> fn_ge_num(args, e, s)
      [] func.name = "string-equal" -> fn_equal_str(args, e, s)
      [] func.name = "lambda" -> fn_lambda(args, e, s)
      [] func.name = "macro" -> fn_macro(args, e, s)
      [] func.name = "set" -> fn_set(args, e, s)
      [] func.name = "setq" -> fn_setq(args, e, s)
      [] func.name = "defun" -> fn_defun(args, e, s)
      [] func.name = "defmacro" -> fn_defmacro(args, e, s)

\* the builtins of default_env that the model covers
Builtins ==
    {"quote", "list", "car", "cdr", "cons", "if", "+", "-", "*", "/", "=", "/=", "<", ">", "<=", ">=",
     "string-equal", "lambda", "macro",
     "set", "setq", "defun", "defmacro"}

\* default_env: the builtins, T and NIL
default_env ==
    <<[x \in Builtins \cup {"T", "NIL"} |->
          IF x = "T" THEN GLOBAL_T ELSE IF x = "NIL" THEN GLOBAL_NIL ELSE FuncPtr(x)]>>

----------------------------------------------------------------------------
(* The REPL of src/main.cpp *)

RECURSIVE run_forms(_, _, _, _, _)
\* the for loop of interpreter: print eval(obj, env) for each obj of the line; the
\* first exception ends the line.  out holds one outcome per evaluated form.
run_forms(objs, i, printed, e, s) ==
    IF i > Len(objs) THEN [st |-> "ok", out |-> printed, env |-> e, store |-> s]
    ELSE Let(eval(objs[i], e, s), LAMBDA r :
             IF r.st = "ok"
             THEN run_forms(objs, i + 1, Append(printed, [st |-> "ok", val |-> r.val]),
                            r.env, r.store)
             ELSE [st |-> r.st, out |-> Append(printed, [st |-> r.st, val |-> r.val]),
                   env |-> r.env, store |-> r.store])

\* where the process is after a line that ended as st; undefined behaviour either
\* kills the process or lets it go on
PcAfter(st) ==
    CASE st \in {"ok", "throw"} -> {"prompt"}
      [] st = "exit" -> {"exited"}
      [] st = "hang" -> {"hung"}
      [] st = "ub" -> {"crashed", "prompt"}

RECURSIVE Held(_)
\* the indices in store of the cells an object holds
Held(o) ==
    CASE o.kind = "PartiallyAppliedFunction" -> {o.args} \ {0}
      [] o.kind = "List" -> UNION {Held(o.elems[i]) : i \in 1..Len(o.elems)}
      [] OTHER -> {}

RECURSIVE Release(_, _)
\* reference counting: the cells that no object bound in e holds are released
\* (the newest first, so that the indices of the others stay)
Release(e, s) ==
    IF s # <<>> /\ \A x \in DOMAIN Head(e) : Len(s) \notin Held(Head(e)[x])
    THEN Release(e, SubSeq(s, 1, Len(s) - 1))
    ELSE s

\* the cells stay within the bounds of the model
WithinBounds(s) ==
    /\ Len(s) <= MaxPartials
    /\ \A i \in 1..Len(s) : Len(s[i]) <= MaxPending

(* The lines typed at the prompt, as parse(lex(input)) returns them *)

Sym(x) == Symbol(x)

Call(h, args) == List(<<h>> \o args)

Quote(o) == List(<<Sym("quote"), o>>)

\* a parameter list: () is read as NIL
Params(ps) == IF ps = <<>> THEN GLOBAL_NIL ELSE List([i \in 1..Len(ps) |-> Sym(ps[i])])

Ints == {Integer(i) : i \in 1..MaxInt}

IntLists == { <<>> } \cup { <<i>> : i \in Ints } \cup { <<i, j>> : i \in Ints, j \in Ints }

\* (defun f (x y) (- x y))
DefunLines ==
    { <<Call(Sym("defun"), <<Sym("f"), List(<<Sym("x"), Sym("y")>>),
                             Call(Sym("-"), <<Sym("x"), Sym("y")>>)>>)>> }

\* (defmacro m (c) '(setq k 1) c)
DefmacroLines ==
    { <<Call(Sym("defmacro"), <<Sym("m"), List(<<Sym("c")>>),
                                Quote(Call(Sym("setq"), <<Sym("k"), Integer(1)>>)),
                                Sym("c")>>)>> }

\* (setq a 1), (setq a 2)
SetqLines == { <<Call(Sym("setq"), <<Sym("a"), Integer(i)>>)>> : i \in 1..2 }

\* (setq p (f a)), (setq p (f))
PartialLine(as) == <<Call(Sym("setq"), <<Sym("p"), Call(Sym("f"), as)>>)>>

PartialLines == { PartialLine(<<Sym("a")>>), PartialLine(<<>>) }

\* (p 1), (p)
ResumeLines == { <<Call(Sym("p"), <<Integer(1)>>)>>, <<Call(Sym("p"), <<>>)>> }

\* ((f a1 .. ak) ak+1 .. a2) for k = 0, 1 and (f a1 a2), (f a1 a2 a3)
NestedLine(k, as) == <<Call(Call(Sym("f"), SubSeq(as, 1, k)), SubSeq(as, k + 1, Len(as)))>>

FullLine(as) == <<Call(Sym("f"), as)>>

ArgLists == { <<Integer(3), Integer(1)>>, <<Sym("a"), Integer(1)>> }

ApplyLines ==
    { NestedLine(k, as) : k \in 0..1, as \in ArgLists }
    \cup { FullLine(as) : as \in ArgLists }
    \cup { FullLine(<<Integer(1), Integer(2), Integer(3)>>) }

\* (m 5), (m), (m 1 2)
MacroLines ==
    { <<Call(Sym("m"), <<Integer(5)>>)>>, <<Call(Sym("m"), <<>>)>>,
      <<Call(Sym("m"), <<Integer(1), Integer(2)>>)>> }

\* ((if T + -) 3 1), ((lambda (x) x) 2), ((macro (c) c) 2), (1 2), (a 1), ('f 1), zz
HeadLines ==
    { <<Call(Call(Sym("if"), <<Sym("T"), Sym("+"), Sym("-")>>), <<Integer(3), Integer(1)>>)>>,
      <<Call(Call(Sym("lambda"), <<List(<<Sym("x")>>), Sym("x")>>), <<Integer(2)>>)>>,
      <<Call(Call(Sym("macro"), <<List(<<Sym("c")>>), Sym("c")>>), <<Integer(2)>>)>>,
      <<Call(Integer(1), <<Integer(2)>>)>>,
      <<Call(Sym("a"), <<Integer(1)>>)>>,
      <<Call(Quote(Sym("f")), <<Integer(1)>>)>>,
      <<Sym("zz")>> }

\* (op i j) and (op i j k)
ArithOps == {"+", "-", "*", "/"}

ArithLine(op, as) == <<Call(Sym(op), as)>>

ArithArgs ==
    { <<i, j>> : i \in Ints, j \in Ints } \cup { <<i, j, k>> : i \in Ints, j \in Ints, k \in Ints }

ArithLines == { ArithLine(op, as) : op \in ArithOps, as \in ArithArgs }

\* (- 3 1 1), (/ 3 1 2)
FoldLines ==
    { ArithLine("-", <<Integer(3), Integer(1), Integer(1)>>),
      ArithLine("/", <<Integer(3), Integer(1), Integer(2)>>) }

Lines ==
    DefunLines \cup DefmacroLines \cup SetqLines \cup PartialLines \cup ResumeLines
    \cup ApplyLines \cup MacroLines \cup HeadLines \cup FoldLines

\* interpreter: one turn of the while loop: prompt, lex, parse, eval and print each
\* form, report an exception and go on
interpreter(line) ==
    /\ pc = "prompt"
    /\ \E r \in {run_forms(line, 1, <<>>, env, store)} :
           /\ WithinBounds(r.store)
           /\ pc' \in PcAfter(r.st)
           /\ env' = r.env
           /\ store' = Release(r.env, r.store)
           /\ input' = line
           /\ out' = r.out

\* the prompt reads end of input: the while loop ends and main returns
EndOfInput ==
    /\ pc = "prompt"
    /\ pc' = "exited"
    /\ UNCHANGED <<env, store, input, out>>

Read == \E line \in Lines : interpreter(line)

Init ==
    /\ env = default_env
    /\ store = <<>>
    /\ pc = "prompt"
    /\ input = <<>>
    /\ out = <<>>

Next == Read \/ EndOfInput

Spec == Init /\ [][Next]_vars

(* The same loop fed with lines that divide by zero, bind and look up *)

\* (/ i 0)
DivZeroLine(i) == ArithLine("/", <<Integer(i), Integer(0)>>)

DivZeroLines == { DivZeroLine(i) : i \in 1..MaxInt }

\* (setq a (+ i j))
SetqSumLine(i, j) ==
    <<Call(Sym("setq"), <<Sym("a"), Call(Sym("+"), <<Integer(i), Integer(j)>>)>>)>>

SetqSumLines == { SetqSumLine(i, j) : i \in 1..2, j \in 1..2 }

\* (set 's v) for s among k, j and v among 1 .. MaxInt, '(1 2); (setq k 1); k, j
SetSyms == {"k", "j"}

SetArgs == Ints \cup { Quote(List(<<Integer(1), Integer(2)>>)) }

SetLine(x, v) == <<Call(Sym("set"), <<Quote(Sym(x)), v>>)>>

SetLines == { SetLine(x, v) : x \in SetSyms, v \in SetArgs }

RedefLines == { <<Call(Sym("setq"), <<Sym("k"), Integer(1)>>)>> }

SymLines == { <<Sym(x)>> : x \in SetSyms }

Lines_data ==
    DivZeroLines \cup SetqSumLines \cup SetLines \cup RedefLines \cup SymLines

Read_data == \E line \in Lines_data : interpreter(line)

Next_data == Read_data \/ EndOfInput

SpecData == Init /\ [][Next_data]_vars

(* The same loop fed with lines that compute a value and leave the Env alone: *)
(* (cons x y), (car (cons x y)), (cdr (cons x y)) for x, y among 1, 1.5, NIL, *)
(* T, '(1 2), 'b, and (cdr '(1)), (cdr '((1 2)))                              *)

ConsArgs ==
    { Integer(1), Number(3, 2), Sym("NIL"), Sym("T"),
      Quote(List(<<Integer(1), Integer(2)>>)), Quote(Sym("b")) }

ConsLine(x, y) == <<Call(Sym("cons"), <<x, y>>)>>

CarConsLine(x, y) == <<Call(Sym("car"), ConsLine(x, y))>>

CdrConsLine(x, y) == <<Call(Sym("cdr"), ConsLine(x, y))>>

CdrLine(l) == <<Call(Sym("cdr"), <<Quote(l)>>)>>

Singletons == { List(<<Integer(1)>>), List(<<List(<<Integer(1), Integer(2)>>)>>) }

ConsLines ==
    { ConsLine(x, y) : x \in ConsArgs, y \in ConsArgs }
    \cup { CarConsLine(x, y) : x \in ConsArgs, y \in ConsArgs }
    \cup { CdrConsLine(x, y) : x \in ConsArgs, y \in ConsArgs }
    \cup { CdrLine(l) : l \in Singletons }

\* ((macro (c) b) 1): the macro expands to the value of b, which eval is then
\* handed; b among T, NIL, 1, 1.5, "s", (lambda (x) x), (macro (x) x), +
ValueExprs ==
    { Sym("T"), Sym("NIL"), Integer(1), Number(3, 2), String(<<"s">>),
      Call(Sym("lambda"), <<List(<<Sym("x")>>), Sym("x")>>),
      Call(Sym("macro"), <<List(<<Sym("x")>>), Sym("x")>>),
      Sym("+") }

MacroValueLine(b) == <<Call(Call(Sym("macro"), <<List(<<Sym("c")>>), b>>), <<Integer(1)>>)>>

MacroValueLines == { MacroValueLine(b) : b \in ValueExprs }

\* (string-equal s1 s2) for s1, s2 among "", "a", "A", "b", "ab", "aB", and
\* (string-equal "a" 1)
Strings ==
    { String(<<>>), String(<<"a">>), String(<<"A">>), String(<<"b">>),
      String(<<"a", "b">>), String(<<"a", "B">>) }

EqualStrLine(a, b) == <<Call(Sym("string-equal"), <<a, b>>)>>

EqualStrLines ==
    { EqualStrLine(a, b) : a \in Strings, b \in Strings \cup {Integer(1)} }

\* (list), (list i), (list i j)
ListLine(as) == <<Call(Sym("list"), as)>>

ListLines == { ListLine(as) : as \in IntLists }

Lines_value ==
    ConsLines \cup MacroValueLines \cup EqualStrLines \cup ListLines

Read_value == \E line \in Lines_value : interpreter(line)

Next_value == Read_value \/ EndOfInput

SpecValue == Init /\ [][Next_value]_vars

(* The same loop fed with lines about the Env of a call:                     *)
(*   (setq a i), (setq x 1)                                                  *)
(*   (defun g (x) (setq a x) (set 'b x) (defun h (y) y) (defmacro w (c) c))  *)
(*   (defun n () (setq a 9))                                                 *)
(*   (defun d (z) a), (defun c (a) (d 0))                                    *)
(*   (g 5), (g a), (n), (d 0), (c 3)                                         *)

DefunLine(name, ps, body) == <<Call(Sym("defun"), <<Sym(name), Params(ps)>> \o body)>>

\* the bindings of the caller
CallerLines ==
    { <<Call(Sym("setq"), <<Sym("a"), Integer(i)>>)>> : i \in 1..2 }
    \cup { <<Call(Sym("setq"), <<Sym("x"), Integer(1)>>)>> }

\* the functions whose bodies define
DefiningLines ==
    { DefunLine("g", <<"x">>,
                << Call(Sym("setq"), <<Sym("a"), Sym("x")>>),
                   Call(Sym("set"), <<Quote(Sym("b")), Sym("x")>>),
                   Call(Sym("defun"), <<Sym("h"), Params(<<"y">>), Sym("y")>>),
                   Call(Sym("defmacro"), <<Sym("w"), Params(<<"c">>), Sym("c")>> ) >>),
      DefunLine("n", <<>>, << Call(Sym("setq"), <<Sym("a"), Integer(9)>>) >>) }

\* the functions with a free symbol
FreeLines ==
    { DefunLine("d", <<"z">>, <<Sym("a")>>),
      DefunLine("c", <<"a">>, << Call(Sym("d"), <<Integer(0)>>) >>) }

CallLine(f, as) == <<Call(Sym(f), as)>>

DefiningCalls ==
    { CallLine("g", <<Integer(5)>>), CallLine("g", <<Sym("a")>>), CallLine("n", <<>>) }

FreeCalls == { CallLine("d", <<Integer(0)>>), CallLine("c", <<Integer(3)>>) }

Lines_scope == CallerLines \cup DefiningLines \cup FreeLines \cup DefiningCalls \cup FreeCalls

Read_scope == \E line \in Lines_scope : interpreter(line)

Next_scope == Read_scope \/ EndOfInput

SpecScope == Init /\ [][Next_scope]_vars

----------------------------------------------------------------------------
(* The evaluator of src/src/eval.cpp.  No builtin of this generation       *)
(* writes to an Env it is handed and no code constructs a partial          *)
(* application, so an evaluation changes neither the caller's Env nor any  *)
(* shared cell: an outcome is its st and val.                              *)

RECURSIVE eval_src(_, _)
RECURSIVE eval_list_src(_, _)
RECURSIVE apply_func_src(_, _, _)
RECURSIVE apply_func_ptr_src(_, _, _)
RECURSIVE apply_macro_src(_, _, _)
RECURSIVE expand_macro_src(_, _, _)
RECURSIVE eval_args_src(_, _, _, _, _, _)
RECURSIVE bind_src(_, _, _, _)
RECURSIVE macro_body_src(_, _, _, _)
RECURSIVE arith_rest_src(_, _, _, _)

Val(v) == [st |-> "ok", val |-> v]

Fail(k) == [st |-> "throw", val |-> Error(k)]

Halt(how) == [st |-> how, val |-> Error(how)]

\* eval of src/src/eval.cpp
eval_src(obj, e) ==
    CASE obj.kind = "List" -> eval_list_src(obj.elems, e)
      [] obj.kind \in {"T", "NIL", "Integer", "Number", "String", "Function",
                       "PartiallyAppliedFunction", "Macro", "FuncPtr",
                       "PartiallyAppliedFuncPtr"} -> Val(obj)
      [] obj.kind = "Symbol" -> get_obj_src(e, obj.name)
      [] obj.kind \in {"Quoted", "BackQuoted"} -> Val(obj.object)
      [] obj.kind \in {"Comma", "CommaAtmark"} -> Fail("IllegalComma")
      [] OTHER -> Fail("unreachable")

\* eval_list of src/src/eval.cpp: the head is always evaluated.  The cells a
\* partial application holds are appended to (args->append(list->next())).
eval_list_src(list, e) ==
    LET first == eval_src(Head(list), e)
        next == Tail(list)
    IN  IF first.st # "ok" THEN first
        ELSE CASE first.val.kind = "Function" -> apply_func_src(first.val, next, e)
               [] first.val.kind = "PartiallyAppliedFunction" ->
                      IF first.val.args = <<>> /\ next # <<>> THEN Halt("ub")
                      ELSE apply_func_src(first.val.func, first.val.args \o next, e)
               [] first.val.kind = "FuncPtr" -> apply_func_ptr_src(first.val, next, e)
               [] first.val.kind = "PartiallyAppliedFuncPtr" ->
                      IF first.val.args = <<>> /\ next # <<>> THEN Halt("ub")
                      ELSE apply_func_ptr_src(first.val.func, first.val.args \o next, e)
               [] first.val.kind = "Macro" -> apply_macro_src(first.val, next, e)
               [] OTHER -> Fail("NotCallable")

\* the while (param != nullptr) loop of apply_func and expand_macro: arg->value()
\* is bound as it is; arg is null once the arguments run out
bind_src(syms, args, i, temp_env) ==
    IF i > Len(syms) THEN [st |-> "ok", temp |-> temp_env]
    ELSE IF i > Len(args) THEN [st |-> "ub", temp |-> temp_env]
    ELSE bind_src(syms, args, i + 1, set_obj(temp_env, syms[i], args[i]))

\* while (body != nullptr) { result = eval(body->value(), env); } of apply_func:
\* body is never advanced, so the loop ends only when eval does not return
func_body_src(body, temp_env) ==
    IF body = <<>> THEN Val(GLOBAL_NIL)
    ELSE LET r == eval_src(body[1], temp_env)
         IN  IF r.st = "ok" THEN Halt("hang") ELSE r

\* apply_func of src/src/eval.cpp.  args is a null pointer when the call has no
\* argument, and args->kind() is then a call through a null pointer.
apply_func_src(func, args, e) ==
    IF func.params = <<>>
    THEN IF args = <<>> THEN Halt("ub") ELSE Fail("ArityExcess")
    ELSE IF args = <<>> THEN Halt("ub")
    ELSE LET b == bind_src(func.params, args, 1, e)
         IN  IF b.st # "ok" THEN Halt(b.st) ELSE func_body_src(func.body, b.temp)

\* the body loop of expand_macro: each expression in turn, the last value is the result
macro_body_src(body, i, result, temp_env) ==
    IF i > Len(body) THEN Val(result)
    ELSE LET r == eval_src(body[i], temp_env)
         IN  IF r.st # "ok" THEN r ELSE macro_body_src(body, i + 1, r.val, temp_env)

\* expand_macro of src/src/eval.cpp
expand_macro_src(macro, args, e) ==
    IF macro.params = <<>>
    THEN IF args = <<>> THEN Halt("ub") ELSE Fail("ArityMismatch")
    ELSE IF args = <<>> THEN Halt("ub")
    ELSE LET b == bind_src(macro.params, args, 1, e)
         IN  IF b.st # "ok" THEN Halt(b.st)
             ELSE macro_body_src(macro.body, 1, GLOBAL_NIL, b.temp)

\* apply_macro of src/src/eval.cpp: eval(expand_macro(macro, args, env), env)
apply_macro_src(macro, args, e) ==
    LET x == expand_macro_src(macro, args, e)
    IN  IF x.st # "ok" THEN x ELSE eval_src(x.val, e)

\* eval_args: num < 0 evaluates every argument; otherwise num arguments are
\* evaluated one by one, "too few" is found when one is missing and "too many"
\* after the last evaluation
eval_args_src(args, e, num, restrict, i, vals) ==
    IF num < 0
    THEN IF i > Len(args) THEN Val(vals)
         ELSE LET r == eval_src(args[i], e)
              IN  IF r.st # "ok" THEN r
                  ELSE eval_args_src(args, e, num, restrict, i + 1, Append(vals, r.val))
    ELSE IF i > num
         THEN IF restrict /\ Len(args) > num THEN Fail("ArityMismatch") ELSE Val(vals)
         ELSE IF i > Len(args) THEN Fail("ArityMismatch")
         ELSE LET r == eval_src(args[i], e)
              IN  IF r.st # "ok" THEN r
                  ELSE eval_args_src(args, e, num, restrict, i + 1, Append(vals, r.val))

\* take_args with num = 1 and restrict = false, as fn_lambda and fn_macro call it
take_args_src(args) == IF args = <<>> THEN Fail("ArityShort") ELSE Val(<<args[1]>>)

\* the for loop of fn_add_num .. fn_div_num: acc = *it op acc
arith_rest_src(op, a, i, acc) ==
    IF i > Len(a) THEN Val(acc)
    ELSE LET x == APPLY_ARITH_OP_TO_NUMS(a[i], acc, op)
         IN  IF x.st = "ok" THEN arith_rest_src(op, a, i + 1, x.val) ELSE x

\* the body shared by fn_add_num, fn_sub_num, fn_mul_num and fn_div_num
fn_arith_num_src(op, args, e) ==
    LET a == eval_args_src(args, e, -1, TRUE, 1, <<>>)
    IN  IF a.st # "ok" THEN a
        ELSE IF Len(a.val) < 2 THEN Fail("ArityShort")
        ELSE LET x == APPLY_ARITH_OP_TO_NUMS(a.val[1], a.val[2], op)
             IN  IF x.st = "ok" THEN arith_rest_src(op, a.val, 3, x.val) ELSE x

fn_add_num_src(args, e) == fn_arith_num_src("+", args, e)

fn_sub_num_src(args, e) == fn_arith_num_src("-", args, e)

fn_mul_num_src(args, e) == fn_arith_num_src("*", args, e)

fn_div_num_src(args, e) == fn_arith_num_src("/", args, e)

\* the body shared by fn_eq_num .. fn_ge_num of src/src/eval.cpp
fn_comp_num_src(op, args, e) ==
    LET a == eval_args_src(args, e, 2, TRUE, 1, <<>>)
    IN  IF a.st # "ok" THEN a ELSE APPLY_COMP_OP_TO_NUMS_src(a.val[1], a.val[2], op)

fn_eq_num_src(args, e) == fn_comp_num_src("=", args, e)

fn_ne_num_src(args, e) == fn_comp_num_src("/=", args, e)

fn_lt_num_src(args, e) == fn_comp_num_src("<", args, e)

fn_gt_num_src(args, e) == fn_comp_num_src(">", args, e)

fn_le_num_src(args, e) == fn_comp_num_src("<=", args, e)

fn_ge_num_src(args, e) == fn_comp_num_src(">=", args, e)

\* fn_list of src/src/eval.cpp
fn_list_src(args, e) ==
    LET a == eval_args_src(args, e, -1, FALSE, 1, <<>>)
    IN  IF a.st # "ok" THEN a
        ELSE IF a.val = <<>> THEN Val(GLOBAL_NIL) ELSE Val(List(a.val))

\* the part fn_lambda and fn_macro share.  With a NIL parameter list the code
\* reads a[1] of a vector that holds one element.
fn_callable_src(kind, args, e) ==
    LET a == take_args_src(args)
    IN  IF a.st # "ok" THEN a
        ELSE IF args[1].kind = "List"
        THEN IF \E i \in 1..Len(args[1].elems) : args[1].elems[i].kind # "Symbol"
             THEN Fail("TypeError")
             ELSE Val([kind |-> kind,
                       params |-> [i \in 1..Len(args[1].elems) |-> args[1].elems[i].name],
                       body |-> Tail(args)])
        ELSE IF args[1].kind = "NIL" THEN Halt("ub")
        ELSE Fail("TypeError")

fn_lambda_src(args, e) == fn_callable_src("Function", args, e)

fn_macro_src(args, e) == fn_callable_src("Macro", args, e)

\* fn_macroexpand of src/src/eval.cpp
fn_macroexpand_src(args, e) ==
    LET a == eval_args_src(args, e, 1, TRUE, 1, <<>>)
    IN  IF a.st # "ok" THEN a
        ELSE IF a.val[1].kind # "List" THEN Fail("TypeError")
        ELSE LET first == eval_src(Head(a.val[1].elems), e)
             IN  IF first.st # "ok" THEN first
                 ELSE IF first.val.kind # "Macro" THEN Fail("TypeError")
                 ELSE expand_macro_src(first.val, Tail(a.val[1].elems), e)

\* apply_func_ptr of src/src/eval.cpp: func->func()(args, env)
apply_func_ptr_src(func, args, e) ==
    CASE func.name = "+" -> fn_add_num_src(args, e)
      [] func.name = "-" -> fn_sub_num_src(args, e)
      [] func.name = "*" -> fn_mul_num_src(args, e)
      [] func.name = "/" -> fn_div_num_src(args, e)
      [] func.name = "=" -> fn_eq_num_src(args, e)
      [] func.name = "/=" -> fn_ne_num_src(args, e)
      [] func.name = "<" -> fn_lt_num_src(args, e)
      [] func.name = ">" -> fn_gt_num_src(args, e)
      [] func.name = "<=" -> fn_le_num_src(args, e)
      [] func.name = ">=" -> fn_ge_num_src(args, e)
      [] func.name = "list" -> fn_list_src(args, e)
      [] func.name = "labmda" -> fn_lambda_src(args, e)
      [] func.name = "macro" -> fn_macro_src(args, e)
      [] func.name = "macroexpand" -> fn_macroexpand_src(args, e)

\* the builtins of default_env (src/src/env.cpp) that the model covers
Builtins_src ==
    {"=", "/=", "<", ">", "<=", ">=", "+", "-", "*", "/", "list", "labmda", "macro",
     "macroexpand"}

\* default_env of src/src/env.cpp
default_env_src == <<[x \in Builtins_src |-> FuncPtr(x)]>>

----------------------------------------------------------------------------
(* The REPL of src/src/main.cpp *)

RECURSIVE debug_src(_)
\* Object::debug of src/src/object.cpp: does printing the object return?  The
\* body of a Function or a Macro without body expressions is a null pointer,
\* and debug() is called through it.
debug_src(o) ==
    CASE o.kind \in {"Function", "Macro"} -> o.body # <<>>
      [] o.kind = "List" -> \A i \in 1..Len(o.elems) : debug_src(o.elems[i])
      [] o.kind \in {"Quoted", "BackQuoted", "Comma", "CommaAtmark"} -> debug_src(o.object)
      [] OTHER -> TRUE

\* where the process is after an outcome: an exception leaves the while loop
\* (the try block encloses it) and main returns
PcAfter_src(st) ==
    CASE st = "ok" -> {"prompt"}
      [] st = "throw" -> {"exited"}
      [] st = "hang" -> {"hung"}
      [] st = "ub" -> {"crashed", "prompt"}

\* ((labmda ps body..) as..) and ((macro ps body..) as..)
FuncLine(ps, body, as) == <<Call(Call(Sym("labmda"), <<Params(ps)>> \o body), as)>>

MacroLine(ps, body, as) == <<Call(Call(Sym("macro"), <<Params(ps)>> \o body), as)>>

ParamLists == { <<>>, <<"x">>, <<"x", "y">> }

Bodies == { <<>>, <<Sym("x")>>, <<Integer(1), Sym("x")>> }

FuncLines == { FuncLine(ps, b, as) : ps \in ParamLists, b \in Bodies, as \in IntLists }

MacroLines_src == { MacroLine(ps, b, as) : ps \in ParamLists, b \in Bodies, as \in IntLists }

\* zz, +, 'x, (), (1 2), (list), (list 1 zz), (list (labmda (x))),
\* (macroexpand '((macro (c) c) 1)), an empty line
OtherLines_src ==
    { <<Sym("zz")>>, <<Sym("+")>>, <<Quoted(Sym("x"))>>, <<GLOBAL_NIL>>,
      <<Call(Integer(1), <<Integer(2)>>)>>,
      <<Call(Sym("list"), <<>>)>>,
      <<Call(Sym("list"), <<Integer(1), Sym("zz")>>)>>,
      <<Call(Sym("list"), <<Call(Sym("labmda"), <<Params(<<"x">>)>>)>>)>>,
      <<Call(Sym("macroexpand"),
             <<Quoted(Call(Call(Sym("macro"), <<Params(<<"c">>), Sym("c")>>),
                           <<Integer(1)>>))>>)>>,
      <<>> }

\* (op a b) for the comparison operators, a and b among 1 .. MaxInt and 1.5,
\* and (op 1 'x)
CompOps == {"=", "/=", "<", ">", "<=", ">="}

CompArgs == Ints \cup {Number(3, 2)}

CompLines == { ArithLine(op, <<a, b>>) : op \in CompOps, a \in CompArgs, b \in CompArgs }

CompLines_src ==
    CompLines \cup { ArithLine(op, <<Integer(1), Quoted(Sym("x"))>>) : op \in CompOps }

\* lines of two forms: i j
TwoFormLines == { <<i, j>> : i \in Ints, j \in Ints }

\* comparisons with one argument or three, the first of them a call of 1:
\* (op (1 2)), (op (1 2) 1 2)
WrongArityLines ==
    { ArithLine(op, as) : op \in CompOps,
                          as \in { << Call(Integer(1), <<Integer(2)>>) >>,
                                   << Call(Integer(1), <<Integer(2)>>), Integer(1), Integer(2) >> } }

Lines_src ==
    ArithLines \cup FuncLines \cup MacroLines_src \cup OtherLines_src \cup CompLines_src
    \cup TwoFormLines \cup WrongArityLines

\* main of src/src/main.cpp: one turn of the while loop.  Only the first form of
\* the line is evaluated; *objs.begin() of a line without forms is undefined.
main_src(line) ==
    /\ pc = "prompt"
    /\ LET r == IF line = <<>> THEN Halt("ub") ELSE eval_src(line[1], env)
           p == IF r.st = "ok" /\ ~debug_src(r.val) THEN Halt("ub") ELSE r
       IN  /\ pc' \in PcAfter_src(p.st)
           /\ out' = <<p>>
    /\ input' = line
    /\ UNCHANGED <<env, store>>

Read_src == \E line \in Lines_src : main_src(line)

Init_src ==
    /\ env = default_env_src
    /\ store = <<>>
    /\ pc = "prompt"
    /\ input = <<>>
    /\ out = <<>>

Next_src == Read_src \/ EndOfInput

SpecSrc == Init_src /\ [][Next_src]_vars

----------------------------------------------------------------------------
(* The reader of src/src: lex (lexer.cpp), parse (parser.cpp) and the text   *)
(* Object::debug (object.cpp) prints.  A text is a sequence of characters,   *)
(* each a string of length one; the name of a symbol and the contents of a   *)
(* string are texts too.                                                      *)

RECURSIVE skip_whitespaces(_, _)
RECURSIVE digits_end(_, _)
RECURSIVE ident_end(_, _)
RECURSIVE string_end(_, _)
RECURSIVE stoi(_, _, _)
RECURSIVE to_string(_)
RECURSIVE lex_src(_, _, _)
RECURSIVE parse_expression(_, _)
RECURSIVE parse_list_rest(_, _, _)
RECURSIVE parse_src(_, _, _)
RECURSIVE debug_text_src(_)
RECURSIVE debug_cells_src(_, _)

\* the character written with a grave accent, which a TLA+ string cannot hold
Backtick == "bq"

DigitChars == <<"0", "1", "2", "3", "4", "5", "6", "7", "8", "9">>

isdigit(c) == \E d \in 1..10 : DigitChars[d] = c

isalpha(c) == c \in {"a", "b", "T", "N", "I", "L"}

isspace(c) == c = " "

is_ident_head_elem(c) == isalpha(c) \/ c \in {"+", "-", "*", "/", "=", "<", ">"}

is_ident_tail_elem(c) == isdigit(c) \/ is_ident_head_elem(c)

\* while (it != last && isspace(*it)) { it++; }
skip_whitespaces(text, it) ==
    IF it <= Len(text) /\ isspace(text[it]) THEN skip_whitespaces(text, it + 1) ELSE it

\* while (rit != last && isdigit(*rit)) { rit++; }
digits_end(text, rit) ==
    IF rit <= Len(text) /\ isdigit(text[rit]) THEN digits_end(text, rit + 1) ELSE rit

\* while (rit != last && is_ident_tail_elem(*rit)) { rit++; }
ident_end(text, rit) ==
    IF rit <= Len(text) /\ is_ident_tail_elem(text[rit]) THEN ident_end(text, rit + 1) ELSE rit

\* while (rit != last && *rit != '"') { rit++; }
string_end(text, rit) ==
    IF rit <= Len(text) /\ text[rit] # "\"" THEN string_end(text, rit + 1) ELSE rit

\* std::stoi of a text of digits
stoi(text, i, acc) ==
    IF i > Len(text) THEN acc
    ELSE stoi(text, i + 1, 10 * acc + (CHOOSE d \in 1..10 : DigitChars[d] = text[i]) - 1)

\* std::to_string of an int that is not negative
to_string(n) ==
    IF n < 10 THEN <<DigitChars[n + 1]>> ELSE Append(to_string(n \div 10), DigitChars[(n % 10) + 1])

\* token of src/src/lexer.cpp: the token at it and the position after it.  A
\* string without its closing quote leaves it one past the end of the input.
token(text, i) ==
    LET it == skip_whitespaces(text, i)
    IN  IF it > Len(text) THEN [st |-> "throw", val |-> Error("LexException"), it |-> it]
        ELSE CASE text[it] = "(" -> [st |-> "ok", val |-> [kind |-> "LParen"], it |-> it + 1]
               [] text[it] = ")" -> [st |-> "ok", val |-> [kind |-> "RParen"], it |-> it + 1]
               [] text[it] = "," -> [st |-> "ok", val |-> [kind |-> "Comma"], it |-> it + 1]
               [] text[it] = "'" -> [st |-> "ok", val |-> [kind |-> "Quote"], it |-> it + 1]
               [] text[it] = Backtick -> [st |-> "ok", val |-> [kind |-> "BackQuote"], it |-> it + 1]
               [] text[it] = "@" -> [st |-> "ok", val |-> [kind |-> "Atmark"], it |-> it + 1]
               [] isdigit(text[it]) ->
                      LET rit == digits_end(text, it)
                      IN  [st |-> "ok",
                           val |-> [kind |-> "Integer",
                                    integer |-> stoi(SubSeq(text, it, rit - 1), 1, 0)],
                           it |-> rit]
               [] text[it] = "\"" ->
                      LET rit == string_end(text, it + 1)
                      IN  IF rit > Len(text)
                          THEN [st |-> "ub", val |-> Error("ub"), it |-> rit + 1]
                          ELSE [st |-> "ok",
                                val |-> [kind |-> "String", string |-> SubSeq(text, it + 1, rit - 1)],
                                it |-> rit + 1]
               [] is_ident_head_elem(text[it]) ->
                      LET rit == ident_end(text, it)
                      IN  [st |-> "ok",
                           val |-> [kind |-> "Identifier",
                                    identifier |-> SubSeq(text, it, rit - 1)],
                           it |-> rit]
               [] OTHER -> [st |-> "throw", val |-> Error("LexException"), it |-> it]

\* lex of src/src/lexer.cpp: while (it != last) tokens.push_back(token(it, last))
lex_src(text, it, tokens) ==
    IF it > Len(text) THEN [st |-> "ok", val |-> tokens]
    ELSE LET k == token(text, it)
         IN  IF k.st # "ok" THEN [st |-> k.st, val |-> k.val]
             ELSE lex_src(text, k.it, Append(tokens, k.val))

\* parse_expression of src/src/parser.cpp, with the parse_*_expression it calls
parse_expression(tokens, it) ==
    IF it > Len(tokens) THEN [st |-> "throw", val |-> Error("ParseException"), it |-> it]
    ELSE CASE tokens[it].kind = "LParen" ->
                  IF it + 1 > Len(tokens)
                  THEN [st |-> "throw", val |-> Error("ParseException"), it |-> it + 1]
                  ELSE IF tokens[it + 1].kind = "RParen"
                  THEN [st |-> "ok", val |-> GLOBAL_NIL, it |-> it + 2]
                  ELSE LET elem == parse_expression(tokens, it + 1)
                       IN  IF elem.st # "ok" THEN elem
                           ELSE parse_list_rest(tokens, elem.it, <<elem.val>>)
           [] tokens[it].kind = "Integer" ->
                  [st |-> "ok", val |-> Integer(tokens[it].integer), it |-> it + 1]
           [] tokens[it].kind = "String" ->
                  [st |-> "ok", val |-> String(tokens[it].string), it |-> it + 1]
           [] tokens[it].kind = "Identifier" ->
                  [st |-> "ok", val |-> Symbol(tokens[it].identifier), it |-> it + 1]
           [] tokens[it].kind = "Quote" ->
                  LET o == parse_expression(tokens, it + 1)
                  IN  IF o.st # "ok" THEN o ELSE [st |-> "ok", val |-> Quoted(o.val), it |-> o.it]
           [] tokens[it].kind = "BackQuote" ->
                  LET o == parse_expression(tokens, it + 1)
                  IN  IF o.st # "ok" THEN o
                      ELSE [st |-> "ok", val |-> BackQuoted(o.val), it |-> o.it]
           [] tokens[it].kind = "Comma" ->
                  \* (*++it)->kind(): the token after the comma is read unchecked
                  IF it + 1 > Len(tokens) THEN [st |-> "ub", val |-> Error("ub"), it |-> it + 1]
                  ELSE IF tokens[it + 1].kind = "Atmark"
                  THEN LET o == parse_expression(tokens, it + 2)
                       IN  IF o.st # "ok" THEN o
                           ELSE [st |-> "ok", val |-> CommaAtmark(o.val), it |-> o.it]
                  ELSE LET o == parse_expression(tokens, it + 1)
                       IN  IF o.st # "ok" THEN o
                           ELSE [st |-> "ok", val |-> Comma(o.val), it |-> o.it]
           [] OTHER -> [st |-> "throw", val |-> Error("ParseException"), it |-> it]

\* the while (true) loop of parse_list_expression
parse_list_rest(tokens, it, list) ==
    IF it > Len(tokens) THEN [st |-> "throw", val |-> Error("ParseException"), it |-> it]
    ELSE IF tokens[it].kind = "RParen" THEN [st |-> "ok", val |-> List(list), it |-> it + 1]
    ELSE LET o == parse_expression(tokens, it)
         IN  IF o.st # "ok" THEN o ELSE parse_list_rest(tokens, o.it, Append(list, o.val))

\* parse of src/src/parser.cpp
parse_src(tokens, it, exprs) ==
    IF it > Len(tokens) THEN [st |-> "ok", val |-> exprs]
    ELSE LET o == parse_expression(tokens, it)
         IN  IF o.st # "ok" THEN [st |-> o.st, val |-> o.val]
             ELSE parse_src(tokens, o.it, Append(exprs, o.val))

\* parse(lex(input))
read_src(text) ==
    LET tokens == lex_src(text, 1, <<>>)
    IN  IF tokens.st # "ok" THEN tokens ELSE parse_src(tokens.val, 1, <<>>)

\* s += it->value()->debug() + " " for each cell of a list
debug_cells_src(elems, i) ==
    IF i > Len(elems) THEN <<>>
    ELSE debug_text_src(elems[i]) \o <<" ">> \o debug_cells_src(elems, i + 1)

\* Object::debug of src/src/object.cpp: the text of an object the parser makes
debug_text_src(o) ==
    CASE o.kind = "List" ->
             LET s == <<"(">> \o debug_cells_src(o.elems, 1)
             IN  Append(SubSeq(s, 1, Len(s) - 1), ")")
      [] o.kind = "NIL" -> <<"N", "I", "L">>
      [] o.kind = "T" -> <<"T">>
      [] o.kind = "Integer" -> to_string(o.v)
      [] o.kind = "String" -> o.str
      [] o.kind = "Symbol" -> o.name
      [] o.kind = "Quoted" -> <<"'">> \o debug_text_src(o.object)
      [] o.kind = "BackQuoted" -> <<Backtick>> \o debug_text_src(o.object)
      [] o.kind = "Comma" -> <<",">> \o debug_text_src(o.object)
      [] o.kind = "CommaAtmark" -> <<",", "@">> \o debug_text_src(o.object)

(* The reader at work on a typed text: read it, print each object, read each *)
(* printed text again.  input is the text, out the results of the steps.     *)

\* the characters of the typed texts, and the texts of at most MaxText characters
Chars == {"(", ")", "'", "\"", " ", "a", "1"}

Texts == UNION { [1..n -> Chars] : n \in 0..MaxText }

\* where a reader step that ended as st leaves the process
PcAfterRead(st, then) ==
    CASE st = "ok" -> {then}
      [] st = "throw" -> {"exited"}
      [] st = "ub" -> {"crashed", then}

\* auto tokens = lex(input); auto objs = parse(tokens);
Parse ==
    /\ pc = "typed"
    /\ \E r \in {read_src(input)} :
           /\ out' = <<r>>
           /\ pc' \in PcAfterRead(r.st, "parsed")
    /\ UNCHANGED <<env, store, input>>

\* ->debug() of each object read
Debug ==
    /\ pc = "parsed"
    /\ out[1].st = "ok"
    /\ out' = Append(out, [i \in 1..Len(out[1].val) |-> debug_text_src(out[1].val[i])])
    /\ pc' = "printed"
    /\ UNCHANGED <<env, store, input>>

\* lex and parse of each printed text
ParseAgain ==
    /\ pc = "printed"
    /\ out' = Append(out, [i \in 1..Len(out[2]) |-> read_src(out[2][i])])
    /\ pc' = "reread"
    /\ UNCHANGED <<env, store, input>>

Init_reader ==
    /\ env = default_env_src
    /\ store = <<>>
    /\ pc = "typed"
    /\ input \in Texts
    /\ out = <<>>

Next_reader == Parse \/ Debug \/ ParseAgain

SpecReader == Init_reader /\ [][Next_reader]_vars

(* The lexer and the parser of src/src at work one after the other: input is *)
(* the typed text, out the tokens and then the objects.                      *)

Chars_lex == {"(", ")", "'", Backtick, ",", "@", "\"", " ", "a", "1", "-"}

Texts_lex == UNION { [1..n -> Chars_lex] : n \in 0..MaxLexText }

\* auto tokens = lex(input);
Lex ==
    /\ pc = "typed"
    /\ \E r \in {lex_src(input, 1, <<>>)} :
           /\ out' = <<r>>
           /\ pc' \in PcAfterRead(r.st, "lexed")
    /\ UNCHANGED <<env, store, input>>

\* auto objs = parse(tokens);
ParseTokens ==
    /\ pc = "lexed"
    /\ out[1].st = "ok"
    /\ \E r \in {parse_src(out[1].val, 1, <<>>)} :
           /\ out' = Append(out, r)
           /\ pc' \in PcAfterRead(r.st, "parsed")
    /\ UNCHANGED <<env, store, input>>

Init_lexer ==
    /\ env = default_env_src
    /\ store = <<>>
    /\ pc = "typed"
    /\ input \in Texts_lex
    /\ out = <<>>

Next_lexer == Lex \/ ParseTokens

SpecLexer == Init_lexer /\ [][Next_lexer]_vars

----------------------------------------------------------------------------
(* The properties *)

\* is x bound to an object of kind k in the frame e[1]?
BoundTo(e, x, k) == x \in DOMAIN Head(e) /\ Head(e)[x].kind = k

\* C1: a function of n parameters applied to k < n arguments (k = 0 included) and
\* then to the remaining n - k arguments gives what one application to all n
\* arguments gives.
C1_PartialThenRest ==
    [][\A as \in ArgLists : \A k \in 0..(Len(as) - 1) :
          (interpreter(NestedLine(k, as)) /\ BoundTo(env, "f", "Function")) =>
              out' = run_forms(FullLine(as), 1, <<>>, env, store).out]_vars

\* C2: applying a partial application leaves its pending arguments as they were.
C2_PendingUnchanged ==
    [][\A line \in ResumeLines :
          (interpreter(line) /\ BoundTo(env, "p", "PartiallyAppliedFunction")
                             /\ Head(env)["p"].args # 0) =>
              store'[Head(env)["p"].args] = store[Head(env)["p"].args]]_vars

\* C3: a call with fewer arguments than parameters evaluates the arguments it is
\* given at that call, and the partial application holds their values: after
\* (setq p (f a)), with a bound to an Integer, p holds the Integer.
C3_StoredEvaluated ==
    [][(interpreter(PartialLine(<<Sym("a")>>)) /\ BoundTo(env, "f", "Function")
                                               /\ BoundTo(env, "a", "Integer")) =>
          /\ BoundTo(env', "p", "PartiallyAppliedFunction")
          /\ Head(env')["p"].args # 0
          /\ store'[Head(env')["p"].args] = <<Head(env)["a"]>>]_vars

\* what the body b of a function with parameters ps applied to the values as
\* returns: the value of its last expression, NIL when it has none
LastValue(ps, b, as) ==
    IF b = <<>> THEN Val(GLOBAL_NIL)
    ELSE LET last == b[Len(b)]
         IN  IF last.kind # "Symbol" THEN Val(last)
             ELSE IF \E i \in 1..Len(ps) : ps[i] = last.name
             THEN Val(as[CHOOSE i \in 1..Len(ps) : ps[i] = last.name])
             ELSE Fail("UnboundSymbol")

\* C4: a function applied to as many arguments as it has parameters binds them
\* pairwise, evaluates its body in sequence and returns the last value; NIL when
\* the body is empty.
C4_FullApplication ==
    \A ps \in ParamLists : \A b \in Bodies : \A as \in IntLists :
        (Len(as) = Len(ps) /\ input = FuncLine(ps, b, as) /\ out # <<>>) =>
            out = <<LastValue(ps, b, as)>>

\* C5: a function applied to more arguments than it has parameters fails with
\* ArityExcess.
C5_ArityExcess ==
    \A ps \in ParamLists : \A b \in Bodies : \A as \in IntLists :
        (Len(as) > Len(ps) /\ input = FuncLine(ps, b, as) /\ out # <<>>) =>
            out = <<Fail("ArityExcess")>>

\* the binding of sym in the nearest frame of the chain e that defines it
Nearest(e, sym) ==
    IF \E i \in 1..Len(e) : sym \in DOMAIN e[i]
    THEN LET n == CHOOSE i \in 1..Len(e) :
                      /\ sym \in DOMAIN e[i]
                      /\ \A j \in 1..(i - 1) : sym \notin DOMAIN e[j]
         IN  Val(e[n][sym])
    ELSE Fail("UnboundSymbol")

\* C6: a symbol evaluates to its binding in the nearest frame that defines it, and
\* fails with UnboundSymbol when no frame does, in the root Env too.
C6_Lookup ==
    \A x \in {"zz", "+"} : (input = <<Sym(x)>> /\ out # <<>>) => out = <<Nearest(env, x)>>

\* C7: of the values of a macro's body only the last is evaluated in the caller's
\* Env: (m 5), with m defined by (defmacro m (c) '(setq k 1) c), returns 5 and
\* leaves the caller's Env as it was.
C7_OnlyExpansionEvaluated ==
    [][(interpreter(<<Call(Sym("m"), <<Integer(5)>>)>>) /\ BoundTo(env, "m", "Macro")) =>
          (env' = env /\ out' = <<[st |-> "ok", val |-> Integer(5)]>>)]_vars

\* C8: a macro applied to a number of arguments other than its number of
\* parameters fails with ArityMismatch.
C8_MacroArity ==
    \A ps \in ParamLists : \A b \in Bodies : \A as \in IntLists :
        (Len(as) # Len(ps) /\ input = MacroLine(ps, b, as) /\ out # <<>>) =>
            out = <<Fail("ArityMismatch")>>

Callable == {"Function", "PartiallyAppliedFunction", "FuncPtr", "PartiallyAppliedFuncPtr", "Macro"}

\* C9: a combination fails with NotCallable exactly when its head evaluates to an
\* object that is no Function, partial application, builtin or Macro, however the
\* head is written.
C9_HeadApplied ==
    [][\A line \in HeadLines :
          (interpreter(line) /\ line[1].kind = "List") =>
              LET h == eval(line[1].elems[1], env, store)
              IN  h.st = "ok" =>
                      (h.val.kind \in Callable <=> out'[1].val # Error("NotCallable"))]_vars

RECURSIVE LeftFold(_, _, _, _)
\* (...((a1 op a2) op a3)... op an), from the operand i on, acc holding the rest
LeftFold(op, a, i, acc) ==
    IF i > Len(a) THEN Val(acc)
    ELSE LET x == APPLY_ARITH_OP_TO_NUMS(acc, a[i], op)
         IN  IF x.st = "ok" THEN LeftFold(op, a, i + 1, x.val) ELSE x

\* C10: (op a1 a2 ... an) is (...((a1 op a2) op a3)... op an), for +, -, * and /.
C10_LeftFold ==
    \A op \in ArithOps : \A as \in ArithArgs :
        (input = ArithLine(op, as) /\ out # <<>>) => out = <<LeftFold(op, as, 2, as[1])>>

\* C11: a comparison of two numbers returns T when the relation holds and NIL
\* when it does not; with an operand that is no number it fails with TypeError.
C11_Comparison ==
    \A op \in CompOps : \A a \in CompArgs : \A b \in CompArgs \cup {Quoted(Sym("x"))} :
        (input = ArithLine(op, <<a, b>>) /\ out # <<>>) =>
            out = << IF b.kind = "Quoted" THEN Fail("TypeError")
                     ELSE Val(IF CompHolds(a, b, op) THEN GLOBAL_T ELSE GLOBAL_NIL) >>

\* C12: dividing an Integer by the Integer zero fails with ArithError, which the
\* driver reports before it prompts again: no value is printed, the process lives.
C12_DivByZero ==
    \A i \in 1..MaxInt :
        (input = DivZeroLine(i) /\ out # <<>>) =>
            /\ out = << [st |-> "throw", val |-> Error("ArithError")] >>
            /\ pc = "prompt"

\* C13: (setq s e) evaluates e, binds s to the value in the current Env and
\* returns that value, not the expression e.
C13_SetqValue ==
    \A i \in 1..2 : \A j \in 1..2 :
        (input = SetqSumLine(i, j) /\ out # <<>>) =>
            /\ BoundTo(env, "a", "Integer") /\ Head(env)["a"] = Integer(i + j)
            /\ out = << [st |-> "ok", val |-> Integer(i + j)] >>

\* the value a literal argument of set evaluates to: itself, or the quoted object
Literal(v) == IF v.kind = "List" THEN v.elems[2] ELSE v

\* the symbol a line binds anew: (set 's v) and (setq s e) redefine s
Redefined(line) ==
    IF line[1].kind = "List" /\ line[1].elems[1] \in {Sym("set"), Sym("setq")}
    THEN { IF line[1].elems[2].kind = "Symbol" THEN line[1].elems[2].name
           ELSE line[1].elems[2].elems[2].name }
    ELSE {}

\* C14: (set 's v) binds s to v in the Env it is evaluated in and returns v; from
\* then on the expression s evaluates to v, and every line that does not redefine
\* s leaves that binding as it is.
C14_SetThenLookup ==
    [][\A x \in SetSyms :
          /\ \A v \in SetArgs :
                 interpreter(SetLine(x, v)) =>
                     /\ out' = << [st |-> "ok", val |-> Literal(v)] >>
                     /\ x \in DOMAIN Head(env') /\ Head(env')[x] = Literal(v)
          /\ (interpreter(<<Sym(x)>>) /\ x \in DOMAIN Head(env)) =>
                 (out' = << [st |-> "ok", val |-> Head(env)[x]] >> /\ env' = env)
          /\ \A line \in Lines_data :
                 (input' = line /\ interpreter(line)
                     /\ x \in DOMAIN Head(env) /\ x \notin Redefined(line)) =>
                     (x \in DOMAIN Head(env') /\ Head(env')[x] = Head(env)[x])]_vars

\* j was set to the list (1 2), k was set afterwards, and j still evaluates to (1 2)
C14_Witness ==
    /\ input = <<Sym("j")>>
    /\ out = << [st |-> "ok", val |-> List(<<Integer(1), Integer(2)>>)] >>
    /\ "k" \in DOMAIN Head(env) /\ Head(env)["k"] = Integer(2)
    /\ pc = "prompt"

\* the value an argument written as a literal, as 'o, as T or as NIL evaluates to
Denotes(a) ==
    IF a = Sym("NIL") THEN GLOBAL_NIL ELSE IF a = Sym("T") THEN GLOBAL_T ELSE Literal(a)

\* C15: cons of x onto NIL is the list (x) of exactly one cell; cons onto a List
\* puts x in front of it; cons onto any other value is the list of the two.
C15_Cons ==
    \A x \in ConsArgs : \A y \in ConsArgs :
        (input = ConsLine(x, y) /\ out # <<>>) =>
            out = << [st |-> "ok",
                      val |-> CASE Denotes(y).kind = "NIL" -> List(<<Denotes(x)>>)
                                [] Denotes(y).kind = "List" ->
                                       List(<<Denotes(x)>> \o Denotes(y).elems)
                                [] OTHER -> List(<<Denotes(x), Denotes(y)>>)] >>

\* C16: (car (cons x y)) is x; (cdr (cons x y)) is y when y is a List and the list
\* (y) when y is an atom other than NIL; cdr of a list of one element is NIL.
C16_CarCdrCons ==
    /\ \A x \in ConsArgs : \A y \in ConsArgs :
           /\ (input = CarConsLine(x, y) /\ out # <<>>) =>
                  out = << [st |-> "ok", val |-> Denotes(x)] >>
           /\ (input = CdrConsLine(x, y) /\ out # <<>> /\ Denotes(y).kind # "NIL") =>
                  out = << [st |-> "ok",
                            val |-> IF Denotes(y).kind = "List" THEN Denotes(y)
                                    ELSE List(<<Denotes(y)>>)] >>
    /\ \A l \in Singletons :
           (input = CdrLine(l) /\ out # <<>>) => out = << [st |-> "ok", val |-> GLOBAL_NIL] >>

\* (cdr (cons 'b '(1 2))) was evaluated and printed (1 2)
C16_Witness ==
    /\ input = CdrConsLine(Quote(Sym("b")), Quote(List(<<Integer(1), Integer(2)>>)))
    /\ out = << [st |-> "ok", val |-> List(<<Integer(1), Integer(2)>>)] >>
    /\ pc = "prompt"

\* C17: eval returns a T, NIL, Integer, Number, String, Function, Macro or builtin
\* it is handed as it is, with no error and without ending the process: a macro
\* that expands to such a value returns the value.
C17_SelfEvaluating ==
    \A b \in ValueExprs :
        (input = MacroValueLine(b) /\ out # <<>>) =>
            /\ out = << [st |-> "ok", val |-> eval(b, env, store).val] >>
            /\ pc = "prompt"

\* C18: a text that lexes and parses is read back as it was read: each object the
\* parser made, printed by debug and lexed and parsed again, gives that object.
C18_ReaderRoundTrip ==
    pc = "reread" =>
        \A i \in 1..Len(out[1].val) : out[3][i] = [st |-> "ok", val |-> <<out[1].val[i]>>]

\* C19: an error raised while a line is evaluated is reported and the loop goes
\* on: the prompt is shown again with the Env as it was before the line.
C19_ErrorResumes ==
    [][\A line \in Lines_src :
          (input' = line /\ main_src(line) /\ out'[1].st = "throw") =>
              (pc' = "prompt" /\ env' = env)]_vars

\* C20: every form of a line is evaluated, in the order written, and one result
\* is printed for each; a line without forms evaluates nothing and the prompt
\* is shown again.
C20_EveryForm ==
    [][\A line \in TwoFormLines \cup {<<>>} :
          (input' = line /\ main_src(line)) =>
              /\ Len(out') = Len(line)
              /\ \A i \in 1..Len(line) : out'[i] = eval_src(line[i], env)
              /\ pc' = "prompt"]_vars

\* C21: a '-' followed by digits is lexed as the identifier - and an integer:
\* the text -1 gives the tokens - and 1.
C21_MinusThenDigits ==
    (input = <<"-", "1">> /\ out # <<>>) =>
        out[1] = [st |-> "ok",
                  val |-> << [kind |-> "Identifier", identifier |-> <<"-">>],
                             [kind |-> "Integer", integer |-> 1] >>]

\* C22: a text that opens a string with " and never closes it fails to lex with
\* a lexer error; the lexer makes no token of it and does not leave the input.
C22_UnclosedString ==
    (/\ input # <<>> /\ input[1] = "\""
     /\ \A i \in 2..Len(input) : input[i] # "\""
     /\ out # <<>>) =>
        out[1] = [st |-> "throw", val |-> Error("LexException")]

\* C23: the parser is total: of every sequence of tokens it makes the objects in
\* their order or fails with a parser error, also when the sequence ends in an
\* open list or right after a quote, a backquote, a comma or a comma-at.
C23_ParserTotal ==
    Len(out) = 2 =>
        \/ out[2].st = "ok"
        \/ out[2] = [st |-> "throw", val |-> Error("ParseException")]

\* C24: string-equal of two strings is T exactly when they are equal once both
\* are put in lower case, NIL otherwise; with an operand that is no string it
\* fails with TypeError.
C24_StringEqual ==
    \A a \in Strings : \A b \in Strings \cup {Integer(1)} :
        (input = EqualStrLine(a, b) /\ out # <<>>) =>
            out = << IF b.kind # "String" THEN [st |-> "throw", val |-> Error("TypeError")]
                     ELSE [st |-> "ok",
                           val |-> IF [i \in 1..Len(a.str) |-> tolower(a.str[i])]
                                      = [i \in 1..Len(b.str) |-> tolower(b.str[i])]
                                   THEN GLOBAL_T ELSE GLOBAL_NIL] >>

\* C25: (list) returns NIL, and (list e1 ... en) the list of the n values in the
\* order of the arguments.
C25_List ==
    \A as \in IntLists :
        (input = ListLine(as) /\ out # <<>>) =>
            out = << [st |-> "ok", val |-> IF as = <<>> THEN GLOBAL_NIL ELSE List(as)] >>

\* C26: the application of a function whose body is a finite sequence of
\* expressions that each end comes to an end: no call of a function with a body
\* of literals and parameters leaves the process in a loop.
C26_ApplicationEnds ==
    \A ps \in ParamLists : \A b \in Bodies : \A as \in IntLists :
        (input = FuncLine(ps, b, as) /\ out # <<>>) => (out[1].st # "hang" /\ pc # "hung")

\* C27: white space before the first token or after the last one changes nothing:
\* a text that lexes gives the same tokens with a blank put in front of it or
\* behind it (so a text of blanks alone gives no token).
C27_WhitespaceInsignificant ==
    (out # <<>> /\ input # <<>>) =>
        /\ (input[Len(input)] = " "
               /\ lex_src(SubSeq(input, 1, Len(input) - 1), 1, <<>>).st = "ok") =>
              out[1] = lex_src(SubSeq(input, 1, Len(input) - 1), 1, <<>>)
        /\ (input[1] = " " /\ lex_src(Tail(input), 1, <<>>).st = "ok") =>
              out[1] = lex_src(Tail(input), 1, <<>>)

\* C28: what a function body defines (set, setq, defun, defmacro) stays in the
\* Env of that call: after a call of g (one parameter) or of n (none) the
\* caller's Env holds the bindings it held before, the one of x that the
\* parameter of g shadows too.
C28_CallKeepsCallerEnv ==
    [][\A line \in DefiningCalls :
          (input' = line /\ interpreter(line)
              /\ BoundTo(env, "g", "Function") /\ BoundTo(env, "n", "Function")) =>
              /\ env' = env
              /\ line # CallLine("g", <<Sym("a")>>) => out'[1].st = "ok"]_vars

\* (g 5) returned while a and x are bound to 1 and b, h, w are not bound
C28_Witness ==
    /\ input = CallLine("g", <<Integer(5)>>)
    /\ out # <<>> /\ out[1].st = "ok"
    /\ BoundTo(env, "a", "Integer") /\ Head(env)["a"] = Integer(1)
    /\ BoundTo(env, "x", "Integer") /\ Head(env)["x"] = Integer(1)
    /\ {"b", "h", "w"} \cap DOMAIN Head(env) = {}

\* C30: a symbol free in a function body is looked up in the Env of the call:
\* (d 0), with d defined by (defun d (z) a), returns what a is bound to when d
\* is called, and called from c, whose parameter is a, it returns c's argument.
C30_DynamicScope ==
    [][/\ (input' = CallLine("d", <<Integer(0)>>) /\ interpreter(CallLine("d", <<Integer(0)>>))
            /\ BoundTo(env, "d", "Function")) =>
              out' = << IF "a" \in DOMAIN Head(env)
                        THEN [st |-> "ok", val |-> Head(env)["a"]]
                        ELSE [st |-> "throw", val |-> Error("UnboundSymbol")] >>
       /\ (input' = CallLine("c", <<Integer(3)>>) /\ interpreter(CallLine("c", <<Integer(3)>>))
            /\ BoundTo(env, "d", "Function") /\ BoundTo(env, "c", "Function")) =>
              (out' = << [st |-> "ok", val |-> Integer(3)] >> /\ env' = env)]_vars

\* (c 3) returned 3 while a is bound to 1 in the caller's Env
C30_Witness ==
    /\ input = CallLine("c", <<Integer(3)>>)
    /\ out = << [st |-> "ok", val |-> Integer(3)] >>
    /\ BoundTo(env, "a", "Integer") /\ Head(env)["a"] = Integer(1)

\* C29: a builtin that takes exactly n arguments and is called with another
\* number of them fails for that reason before it evaluates any argument: a
\* comparison called with one argument or with three fails with the arity
\* error whatever the arguments are.
C29_ArityBeforeEvaluation ==
    \A line \in WrongArityLines :
        (input = line /\ out # <<>>) => out = <<Fail("ArityMismatch")>>

====
